---- MODULE Spec2Model ----
(***************************************************************************)
(* The document lifecycle of the ERPNext controller template               *)
(* (references/erpnext-master/26_TEMPLATES/doctype-controller.py): one     *)
(* document, its hook methods and the helpers they call, the ledger and    *)
(* stock collaborators they post to, and the lifecycle sequencer that      *)
(* invokes the hooks around each transition.                               *)
(*                                                                         *)
(* Money is held in hundredths of the currency unit (Cent), so that the    *)
(* division by 100 of calculate_taxes is exact; item rates are whole       *)
(* units. Python's binary floating point rounding is not modelled.         *)
(***************************************************************************)
EXTENDS Integers, Sequences, FiniteSets, TLC

\* ---------------------------------------------------------------- bounds
MaxRows == 2      \* item rows of a document in the lifecycle specification
MaxQty == 2       \* largest qty of an item row
MaxStock == 2     \* largest stock balance the environment sets
MaxCalcRows == 2  \* item rows of a document in the calculation specification
MaxTaxRows == 2   \* tax rows of a document in the calculation specification
MaxBulk == 3      \* records in the input of bulk_create_customers

\* ------------------------------------------------------------- constants
Cent == 100       \* hundredths per currency unit; the divisor of calculate_taxes

VARIABLES
    doc,     \* the document object in memory (fields, child rows, docstatus)
    db,      \* identifiers the persistence collaborator resolves
    stock,   \* stock balance per <<item_code, warehouse>>
    gl,      \* batches posted to the general ledger for this document
    sl,      \* batches posted to the stock ledger for this document
    log,     \* calls made by the last transition, in order
    err,     \* error class the last transition failed with, or NoError
    at,      \* position in log of the call that raised it (0: none was made)
    last,    \* name of the last transition (or calculation) run
    pre,     \* docstatus, stock, ledger sizes and identifiers before it
    records, \* the documents of the doctype the database holds, when several
             \* are followed: identifier, customer and docstatus of each
    bulk     \* a call of bulk_create_customers: its input, the position of
             \* its loop, created, errors, and how it has ended

vars == <<doc, db, stock, gl, sl, log, err, at, last, pre, records, bulk>>

\* ----------------------------------------------------------- vocabulary
\* No call of bulk_create_customers is in progress.
NoBulk == [input |-> <<>>, i |-> 1, created |-> <<>>, errors |-> <<>>, pc |-> "none"]

Draft == "Draft"
Submitted == "Submitted"
Cancelled == "Cancelled"

NoError == "NoError"
ValidationError == "ValidationError"   \* frappe.throw without an exception class
PermissionError == "PermissionError"

OnNetTotal == "On Net Total"
Actual == "Actual"

Items == {"I1"}
Warehouses == {"W1"}
NoWarehouse == ""
Names == {"D1", "D2"}

\* flt: the number itself for a number (None and text, which it turns
\* into 0, are not among the modelled field values).
flt(x) == x

\* An exception of class cls leaves the call being made.
raise(s, cls) == [s EXCEPT !.err = cls, !.at = Len(s.log)]

\* frappe.throw(msg): raises the framework's default exception class.
throw(s) == raise(s, ValidationError)

\* ------------------------------------------------------- validation methods
validate_required_fields(s) ==
    IF s.doc.customer = "" THEN throw(s)
    ELSE IF s.doc.items = <<>> THEN throw(s)
    ELSE s

\* Dates are day numbers; 0 is an unset (falsy) date.
validate_dates(s) ==
    IF s.doc.from_date # 0 /\ s.doc.to_date # 0 /\ s.doc.from_date > s.doc.to_date
    THEN throw(s)
    ELSE IF s.doc.due_date # 0 /\ s.doc.due_date < s.doc.posting_date
    THEN throw(s)
    ELSE s

\* The first row, in row order, with qty <= 0 or rate < 0 throws.
RECURSIVE QuantitiesFrom(_, _)
QuantitiesFrom(s, i) ==
    IF i > Len(s.doc.items) THEN s
    ELSE IF flt(s.doc.items[i].qty) <= 0 THEN throw(s)
    ELSE IF flt(s.doc.items[i].rate) < 0 THEN throw(s)
    ELSE QuantitiesFrom(s, i + 1)

\* A mutant: a qty of 0 is let through (< for <=).
RECURSIVE QuantitiesFrom_ZeroOk(_, _)
QuantitiesFrom_ZeroOk(s, i) ==
    IF i > Len(s.doc.items) THEN s
    ELSE IF flt(s.doc.items[i].qty) < 0 THEN throw(s)
    ELSE IF flt(s.doc.items[i].rate) < 0 THEN throw(s)
    ELSE QuantitiesFrom_ZeroOk(s, i + 1)

validate_quantities_ZeroOk(s) == QuantitiesFrom_ZeroOk(s, 1)

validate_quantities(s) == QuantitiesFrom(s, 1)

get_stock_balance(s, item_code, warehouse) == s.stock[<<item_code, warehouse>>]

\* Rows without a warehouse (or with a falsy qty) are skipped; the first
\* row whose qty exceeds the balance throws.
RECURSIVE AgainstStockFrom(_, _)
AgainstStockFrom(s, i) ==
    IF i > Len(s.doc.items) THEN s
    ELSE LET item == s.doc.items[i] IN
         IF item.warehouse # NoWarehouse /\ item.qty # 0
            /\ get_stock_balance(s, item.item_code, item.warehouse) < item.qty
         THEN throw(s)
         ELSE AgainstStockFrom(s, i + 1)

\* A mutant: no row is compared with the balance.
validate_against_stock_Skip(s) == s

validate_against_stock(s) == AgainstStockFrom(s, 1)

\* frappe.db.exists("Custom DocType", {customer, docstatus: 1}): the other
\* documents of the database are the environment's; s.env.dup is its answer.
validate_unique_constraints(s) ==
    IF s.env.dup THEN throw(s) ELSE s

\* ------------------------------------------------------ calculation methods
\* self.total_tax = 0, then per tax row in row order.
RECURSIVE TaxesFrom(_, _)
TaxesFrom(d, i) ==
    IF i > Len(d.taxes) THEN d
    ELSE LET tax == d.taxes[i]
             amount == IF tax.charge_type = OnNetTotal
                       THEN (flt(d.total_amount) * flt(tax.rate)) \div Cent
                       ELSE tax.tax_amount
             d1 == [d EXCEPT !.taxes[i].tax_amount = amount,
                             !.total_tax = @ + flt(amount)]
         IN TaxesFrom(d1, i + 1)

\* A mutant: total_tax is not reset before the rows are added.
calculate_taxes_NoReset(d) == TaxesFrom(d, 1)

calculate_taxes(d) == TaxesFrom([d EXCEPT !.total_tax = 0], 1)

RECURSIVE ItemTotalsFrom(_, _)
ItemTotalsFrom(d, i) ==
    IF i > Len(d.items) THEN d
    ELSE LET amount == flt(d.items[i].qty) * flt(d.items[i].rate)
             d1 == [d EXCEPT !.items[i].amount = amount,
                             !.total_qty = @ + flt(d.items[i].qty),
                             !.total_amount = @ + amount]
         IN ItemTotalsFrom(d1, i + 1)

\* A mutant: grand_total is taken before calculate_taxes has run.
calculate_totals_doc_EarlyGrand(d) ==
    LET d1 == ItemTotalsFrom([d EXCEPT !.total_qty = 0, !.total_amount = 0], 1)
        d2 == calculate_taxes(d1)
    IN [d2 EXCEPT !.grand_total = d1.total_amount + d1.total_tax]

\* A mutant: total_qty and total_amount are not reset before the rows are added.
calculate_totals_doc_NoReset(d) ==
    LET d1 == ItemTotalsFrom(d, 1)
        d2 == calculate_taxes(d1)
    IN [d2 EXCEPT !.grand_total = d2.total_amount + d2.total_tax]

calculate_totals_doc(d) ==
    LET d1 == ItemTotalsFrom([d EXCEPT !.total_qty = 0, !.total_amount = 0], 1)
        d2 == calculate_taxes(d1)
    IN [d2 EXCEPT !.grand_total = d2.total_amount + d2.total_tax]

calculate_totals(s) == [s EXCEPT !.doc = calculate_totals_doc(s.doc)]

\* ----------------------------------------------------------- ledger methods
DebitAccount == "Debtors"
CreditAccount == "Sales"
TaxAccount == "Tax"

\* get_gl_dict: the entry as given (account, debit, credit).
get_gl_dict(e) == e

TaxEntries(d) ==
    [i \in 1..Len(d.taxes) |->
        get_gl_dict([account |-> TaxAccount, debit |-> 0,
                     credit |-> d.taxes[i].tax_amount])]

\* A mutant: the debit is the net total, without the taxes.
BuildGlEntries_DebitNet(d) ==
    <<get_gl_dict([account |-> DebitAccount, debit |-> d.total_amount, credit |-> 0]),
      get_gl_dict([account |-> CreditAccount, debit |-> 0, credit |-> d.total_amount])>>
    \o TaxEntries(d)

\* The list make_gl_entries builds: the debit, the credit, one per tax row.
BuildGlEntries(d) ==
    <<get_gl_dict([account |-> DebitAccount, debit |-> d.grand_total, credit |-> 0]),
      get_gl_dict([account |-> CreditAccount, debit |-> 0, credit |-> d.total_amount])>>
    \o TaxEntries(d)

\* The ledger collaborator, post_entries(entries, reversal): a reversal
\* posts one entry per entry given, debit and credit exchanged.
Reversed(entries) ==
    [i \in 1..Len(entries) |->
        [account |-> entries[i].account,
         debit |-> entries[i].credit,
         credit |-> entries[i].debit]]

post_entries(s, entries, cancel) ==
    [s EXCEPT !.gl = Append(@, [entries |-> IF cancel = 1 THEN Reversed(entries)
                                            ELSE entries,
                                cancel |-> cancel])]

make_gl_entries(s) == post_entries(s, BuildGlEntries(s.doc), 0)

\* get_gl_entries: the entries this document's submit posted.
get_gl_entries(s) ==
    IF \E i \in 1..Len(s.gl) : s.gl[i].cancel = 0
    THEN s.gl[CHOOSE i \in 1..Len(s.gl) :
                 s.gl[i].cancel = 0 /\ \A j \in (i + 1)..Len(s.gl) : s.gl[j].cancel # 0].entries
    ELSE <<>>

\* A mutant: the entries are posted again instead of reversed (cancel=0).
cancel_gl_entries_NoReversal(s) == post_entries(s, get_gl_entries(s), 0)

cancel_gl_entries(s) == post_entries(s, get_gl_entries(s), 1)

\* The stock ledger entries of the rows, in row order: an issue of qty each.
SlEntries(d) ==
    [i \in 1..Len(d.items) |->
        [item_code |-> d.items[i].item_code,
         warehouse |-> d.items[i].warehouse,
         actual_qty |-> 0 - flt(d.items[i].qty)]]

\* The balance after a batch of stock ledger entries; rows without a
\* warehouse move no balance.
RECURSIVE ApplySl(_, _, _)
ApplySl(st, entries, i) ==
    IF i > Len(entries) THEN st
    ELSE LET e == entries[i] IN
         IF e.warehouse = NoWarehouse THEN ApplySl(st, entries, i + 1)
         ELSE ApplySl([st EXCEPT ![<<e.item_code, e.warehouse>>] = @ + e.actual_qty],
                      entries, i + 1)

update_stock_ledger(s) ==
    LET entries == SlEntries(s.doc) IN
    [s EXCEPT !.sl = Append(@, entries), !.stock = ApplySl(@, entries, 1)]

\* ------------------------------------------- helpers the template only calls
\* The hooks call these methods, whose bodies the template leaves to the
\* application. Each may signal failure; s.env.deny names the one that does
\* in this transition ("none": none does). check_permissions fails with a
\* permission error, the others with a validation error.
OpenHelpers ==
    {"set_defaults", "update_status", "update_related_documents",
     "send_notification", "check_permissions", "validate_for_submit",
     "create_related_documents",
     "check_if_cancel_allowed", "cancel_related_documents",
     "check_if_delete_allowed", "cleanup_references",
     "check_if_rename_allowed", "update_references"}

open_helper(name, s) ==
    IF s.env.deny # name THEN s
    ELSE IF name = "check_permissions" THEN raise(s, PermissionError)
    ELSE throw(s)

\* cancel_stock_ledger: the issues of the submit are taken back.
cancel_stock_ledger(s) ==
    IF s.env.deny = "cancel_stock_ledger" THEN throw(s)
    ELSE IF s.sl = <<>> THEN s
    ELSE LET back == [i \in 1..Len(s.sl[Len(s.sl)]) |->
                         [s.sl[Len(s.sl)][i] EXCEPT !.actual_qty = 0 - @]]
         IN [s EXCEPT !.sl = Append(@, back), !.stock = ApplySl(@, back, 1)]

\* ------------------------------------------------------------------ hooks
RECURSIVE Calls(_, _)

before_insert(s) == Calls(<<"set_defaults", "validate_unique_constraints">>, s)

\* A mutant: the availability check before the totals.
validate_StockFirst(s) ==
    Calls(<<"validate_required_fields", "validate_dates", "validate_quantities",
            "validate_against_stock", "calculate_totals">>, s)

\* A mutant: the totals are not calculated.
validate_NoTotals(s) ==
    Calls(<<"validate_required_fields", "validate_dates", "validate_quantities",
            "validate_against_stock">>, s)

validate(s) ==
    Calls(<<"validate_required_fields", "validate_dates", "validate_quantities",
            "calculate_totals", "validate_against_stock">>, s)

before_save(s) == Calls(<<"update_status">>, s)

on_update(s) == Calls(<<"update_related_documents">>, s)

after_insert(s) == Calls(<<"send_notification">>, s)

\* A mutant: validate_for_submit is not called.
before_submit_NoValidate(s) == Calls(<<"check_permissions">>, s)

before_submit(s) == Calls(<<"check_permissions", "validate_for_submit">>, s)

on_submit(s) ==
    Calls(<<"make_gl_entries", "update_stock_ledger", "create_related_documents",
            "update_status">>, s)

before_cancel(s) == Calls(<<"check_if_cancel_allowed">>, s)

on_cancel(s) ==
    Calls(<<"cancel_gl_entries", "cancel_stock_ledger", "cancel_related_documents">>, s)

on_trash(s) == Calls(<<"check_if_delete_allowed">>, s)

after_delete(s) == Calls(<<"cleanup_references">>, s)

\* A mutant: the references are updated before the rename is checked.
before_rename_UpdateFirst(s) ==
    Calls(<<"update_references", "check_if_rename_allowed">>, s)

before_rename(s) == Calls(<<"check_if_rename_allowed">>, s)

after_rename(s) == Calls(<<"update_references">>, s)

\* ------------------------------------------------------- method dispatch
\* A call is logged with the hook point it runs under and the status,
\* identifier and storage of the document it observes, and then runs.
Logged(name, s) ==
    [s EXCEPT !.log = Append(@, [call |-> name, hook |-> s.hook,
                                 docstatus |-> s.doc.docstatus,
                                 name |-> s.doc.name,
                                 stored |-> s.doc.name \in s.db])]

Body(name, s) ==
    CASE name = "before_insert" -> before_insert(s)
      [] name = "validate" -> validate(s)
      [] name = "before_save" -> before_save(s)
      [] name = "on_update" -> on_update(s)
      [] name = "after_insert" -> after_insert(s)
      [] name = "before_submit" -> before_submit(s)
      [] name = "on_submit" -> on_submit(s)
      [] name = "before_cancel" -> before_cancel(s)
      [] name = "on_cancel" -> on_cancel(s)
      [] name = "on_trash" -> on_trash(s)
      [] name = "after_delete" -> after_delete(s)
      [] name = "before_rename" -> before_rename(s)
      [] name = "after_rename" -> after_rename(s)
      [] name = "validate_required_fields" -> validate_required_fields(s)
      [] name = "validate_dates" -> validate_dates(s)
      [] name = "validate_quantities" -> validate_quantities(s)
      [] name = "calculate_totals" -> calculate_totals(s)
      [] name = "validate_against_stock" -> validate_against_stock(s)
      [] name = "validate_unique_constraints" -> validate_unique_constraints(s)
      [] name = "make_gl_entries" -> make_gl_entries(s)
      [] name = "update_stock_ledger" -> update_stock_ledger(s)
      [] name = "cancel_gl_entries" -> cancel_gl_entries(s)
      [] name = "cancel_stock_ledger" -> cancel_stock_ledger(s)
      [] OTHER -> open_helper(name, s)

\* Statements in sequence: an exception ends the sequence.
Calls(names, s) ==
    IF names = <<>> \/ s.err # NoError THEN s
    ELSE Calls(Tail(names), Body(Head(names), Logged(Head(names), s)))

\* ---------------------------------------------------- lifecycle sequencer
Transitions == {"insert", "save", "submit", "cancel", "delete", "rename"}

\* The canonical hook points of each transition, the persist step among
\* them. validate is "called on save and before submit": a submit validates
\* before its own hooks run.
HookOrder(t) ==
    CASE t = "insert" -> <<"before_insert", "validate", "before_save", "persist",
                           "on_update", "after_insert">>
      [] t = "save" -> <<"validate", "before_save", "persist", "on_update">>
      [] t = "submit" -> <<"validate", "before_submit", "persist", "on_submit">>
      [] t = "cancel" -> <<"before_cancel", "persist", "on_cancel">>
      [] t = "delete" -> <<"on_trash", "persist", "after_delete">>
      [] t = "rename" -> <<"before_rename", "persist", "after_rename">>

\* The status a transition may start from: submit from Draft, cancel from
\* Submitted, save from Draft; delete and rename from any.
\* A mutant: every transition starts from any status.
StatusAllows_Any(t, status) == TRUE

StatusAllows(t, status) ==
    CASE t = "submit" -> status = Draft
      [] t = "cancel" -> status = Submitted
      [] t = "save" -> status = Draft
      [] OTHER -> TRUE

\* The persist step: the only place the sequencer calls the persistence
\* collaborator, and where the status advances.
Persist(t, s) ==
    CASE t = "insert" -> [s EXCEPT !.db = @ \cup {s.doc.name}]
      [] t = "save" -> s
      [] t = "submit" -> [s EXCEPT !.doc.docstatus = Submitted]
      [] t = "cancel" -> [s EXCEPT !.doc.docstatus = Cancelled]
      [] t = "delete" -> [s EXCEPT !.db = @ \ {s.doc.name}]
      [] t = "rename" -> [s EXCEPT !.db = (@ \ {s.doc.name}) \cup {s.env.new_name},
                                   !.doc.name = s.env.new_name]

RECURSIVE RunHooks(_, _, _)
RunHooks(points, t, s) ==
    IF points = <<>> \/ s.err # NoError THEN s
    ELSE LET h == Head(points)
             s1 == [s EXCEPT !.hook = h]
             s2 == IF h = "persist" THEN Persist(t, Logged(h, s1))
                   ELSE Calls(<<h>>, s1)
         IN RunHooks(Tail(points), t, s2)

\* On failure the status and the identifier are as before, and what the
\* persistence, ledger and stock collaborators hold is rolled back by them;
\* the fields the callbacks wrote in memory are not restored.
Rollback(r, s) ==
    [r EXCEPT !.doc.docstatus = s.doc.docstatus, !.doc.name = s.doc.name,
              !.db = s.db, !.gl = s.gl, !.sl = s.sl, !.stock = s.stock]

run_transition(t, s) ==
    IF ~StatusAllows(t, s.doc.docstatus) THEN throw(s)
    ELSE LET r == RunHooks(HookOrder(t), t, s)
         IN IF r.err # NoError THEN Rollback(r, s) ELSE r

\* ------------------------------------------------------------ documents
Row(w, q, r) == [item_code |-> "I1", warehouse |-> w, qty |-> q, rate |-> r, amount |-> 0]

TaxRow(c, r, a) == [charge_type |-> c, rate |-> r, tax_amount |-> a]

\* from_date, to_date, due_date, posting_date: in order, unset, from after
\* to, due before posting.
DatesInOrder == <<1, 2, 2, 1>>
DatesUnset == <<0, 0, 0, 1>>
DateCases == {DatesInOrder, DatesUnset, <<2, 1, 0, 1>>, <<0, 0, 1, 2>>}

Content(customer, dates, items, taxes) ==
    [customer |-> customer, dates |-> dates, items |-> items, taxes |-> taxes]

GoodRow(q) == Row("W1", q, 2 * Cent)

GoodItems(k, q) == [i \in 1..k |-> GoodRow(q)]

OnNetTax == TaxRow(OnNetTotal, 10, 0)
ActualTax == TaxRow(Actual, 0, 5 * Cent)

\* The documents of the lifecycle specification: the valid ones (one row
\* and MaxRows rows, of qty 1 and of qty MaxQty, and tax rows of both charge
\* types), and one for each way a check of validate can fail or be skipped.
LifeContents ==
    {Content("C1", DatesInOrder, GoodItems(k, q), <<>>) : k \in {1, MaxRows}, q \in {1, MaxQty}}
    \cup {Content("C1", d, GoodItems(1, 1), <<OnNetTax, ActualTax>>) : d \in DateCases}
    \cup {Content("", DatesInOrder, GoodItems(1, 1), <<>>),
          Content("C1", DatesInOrder, <<>>, <<>>)}
    \cup {Content("C1", DatesInOrder, x, <<OnNetTax>>) :
            x \in {<<Row("W1", 0, 2 * Cent)>>,
                   <<GoodRow(1), Row("W1", 1, 0 - Cent)>>,
                   <<Row(NoWarehouse, MaxQty, 2 * Cent)>>}}

SeqsUpTo(S, n) == UNION {[1..k -> S] : k \in 0..n}

NewDoc(customer, dates, items, taxes) ==
    [name |-> "D1", docstatus |-> Draft, customer |-> customer,
     from_date |-> dates[1], to_date |-> dates[2],
     due_date |-> dates[3], posting_date |-> dates[4],
     items |-> items, taxes |-> taxes,
     total_qty |-> 0, total_amount |-> 0, total_tax |-> 0, grand_total |-> 0]

\* What a client sets on a document in memory: the fields and the rows;
\* the totals stay what the last calculation left.
WithContent(d, c) ==
    [d EXCEPT !.customer = c.customer,
              !.from_date = c.dates[1], !.to_date = c.dates[2],
              !.due_date = c.dates[3], !.posting_date = c.dates[4],
              !.items = c.items, !.taxes = c.taxes]

\* The helpers that may fail in a transition, and "none".
Deny(t) ==
    {"none"} \cup
    CASE t = "insert" -> {"update_status", "update_related_documents",
                          "send_notification"}
      [] t = "save" -> {"update_status", "update_related_documents"}
      [] t = "submit" -> {"check_permissions", "validate_for_submit",
                          "create_related_documents"}
      [] t = "cancel" -> {"check_if_cancel_allowed", "cancel_related_documents"}
      [] t = "delete" -> {"check_if_delete_allowed", "cleanup_references"}
      [] t = "rename" -> {"check_if_rename_allowed", "update_references"}

Env(deny, dup, new_name) == [deny |-> deny, dup |-> dup, new_name |-> new_name]

Start(d, g, l, env) ==
    [doc |-> d, db |-> db, stock |-> stock, gl |-> g, sl |-> l,
     log |-> <<>>, err |-> NoError, at |-> 0, hook |-> "", env |-> env]

Snapshot(d) ==
    [docstatus |-> d.docstatus, name |-> d.name, stock |-> stock,
     gl |-> gl, sl |-> sl, db |-> db]

Finish(t, d, r) ==
    /\ doc' = r.doc
    /\ db' = r.db
    /\ stock' = r.stock
    /\ gl' = r.gl
    /\ sl' = r.sl
    /\ log' = r.log
    /\ err' = r.err
    /\ at' = r.at
    /\ last' = t
    /\ pre' = Snapshot(d)
    /\ bulk' = bulk

\* ------------------------------------------------------------- actions
Stored == doc.name \in db

BlankDoc == NewDoc("", <<0, 0, 0, 1>>, <<>>, <<>>)

Quiet(t) ==
    /\ log' = <<>>
    /\ err' = NoError
    /\ at' = 0
    /\ last' = t
    /\ pre' = Snapshot(doc)
    /\ UNCHANGED <<records, bulk>>

\* frappe.get_doc({...}): a new document object, not yet inserted.
New ==
    /\ ~Stored
    /\ doc # BlankDoc
    /\ doc' = BlankDoc
    /\ gl' = <<>>
    /\ sl' = <<>>
    /\ Quiet("new")
    /\ UNCHANGED <<db, stock>>

\* The client sets a field or changes the rows of a draft in memory.
Edit ==
    /\ doc.docstatus = Draft
    /\ last # "edit"
    /\ \E c \in LifeContents :
          /\ WithContent(doc, c) # doc
          /\ doc' = WithContent(doc, c)
    /\ Quiet("edit")
    /\ UNCHANGED <<db, stock, gl, sl>>

Run(t, deny, dup, new_name) ==
    /\ Finish(t, doc, run_transition(t, Start(doc, gl, sl, Env(deny, dup, new_name))))
    /\ UNCHANGED records

Insert ==
    /\ ~Stored
    /\ doc.docstatus = Draft
    /\ \E deny \in Deny("insert"), dup \in BOOLEAN : Run("insert", deny, dup, doc.name)

Save ==
    /\ Stored
    /\ doc.docstatus # Submitted
    /\ \E deny \in Deny("save") : Run("save", deny, FALSE, doc.name)

Submit ==
    /\ Stored
    /\ \E deny \in Deny("submit") : Run("submit", deny, FALSE, doc.name)

Cancel ==
    /\ Stored
    /\ \E deny \in Deny("cancel") : Run("cancel", deny, FALSE, doc.name)

Delete ==
    /\ Stored
    /\ \E deny \in Deny("delete") : Run("delete", deny, FALSE, doc.name)

Rename ==
    /\ Stored
    /\ \E deny \in Deny("rename"), new_name \in Names \ {doc.name} :
          Run("rename", deny, FALSE, new_name)

\* Receipts and issues of other documents change the balance.
StockMove ==
    /\ \E k \in DOMAIN stock, q \in 0..MaxStock :
          /\ q # stock[k]
          /\ stock' = [stock EXCEPT ![k] = q]
    /\ Quiet("stock_move")
    /\ UNCHANGED <<doc, db, gl, sl>>

Init ==
    /\ doc = BlankDoc
    /\ db = {}
    /\ stock \in [Items \X Warehouses -> 0..MaxStock]
    /\ gl = <<>>
    /\ sl = <<>>
    /\ log = <<>>
    /\ err = NoError
    /\ at = 0
    /\ last = "none"
    /\ pre = Snapshot(doc)
    /\ records = {}
    /\ bulk = NoBulk

Next == New \/ Edit \/ Insert \/ Save \/ Submit \/ Cancel \/ Delete \/ Rename \/ StockMove

Spec == Init /\ [][Next]_vars

\* ------------------------------------------------ calculation specification
\* calculate_totals on documents of any rows, whose totals hold what an
\* earlier calculation (on other rows) left.
CalcRates == {50 * Cent, 100 * Cent}

CalcRows == {Row("W1", q, r) : q \in 0..MaxQty, r \in CalcRates}

CalcTaxRows == {TaxRow(OnNetTotal, 10, 7 * Cent), TaxRow(Actual, 10, 5 * Cent),
                TaxRow(Actual, 0, 0)}

StaleTotals == {0, 7 * Cent}

CalcDocs ==
    {[NewDoc("C1", DatesUnset, items, taxes) EXCEPT
         !.total_qty = x, !.total_amount = x, !.total_tax = x, !.grand_total = x] :
       items \in SeqsUpTo(CalcRows, MaxCalcRows),
       taxes \in SeqsUpTo(CalcTaxRows, MaxTaxRows),
       x \in StaleTotals}

CalcInit ==
    /\ doc \in CalcDocs
    /\ db = {}
    /\ stock = [k \in Items \X Warehouses |-> 0]
    /\ gl = <<>>
    /\ sl = <<>>
    /\ log = <<>>
    /\ err = NoError
    /\ at = 0
    /\ last = "none"
    /\ pre = doc
    /\ records = {}
    /\ bulk = NoBulk

Calculate ==
    /\ LET r == Calls(<<"calculate_totals">>, Start(doc, gl, sl, Env("none", FALSE, doc.name)))
       IN /\ doc' = r.doc
          /\ log' = r.log
          /\ err' = r.err
          /\ at' = r.at
    /\ last' = "calculate_totals"
    /\ pre' = doc
    /\ UNCHANGED <<db, stock, gl, sl, records, bulk>>

\* make_gl_entries on a document whose totals have been calculated, as
\* on_submit calls it after validate.
PostLedger ==
    /\ last = "calculate_totals"
    /\ LET r == Calls(<<"make_gl_entries">>, Start(doc, <<>>, sl, Env("none", FALSE, doc.name)))
       IN /\ gl' = r.gl
          /\ log' = r.log
          /\ err' = r.err
          /\ at' = r.at
    /\ last' = "make_gl_entries"
    /\ pre' = doc
    /\ UNCHANGED <<doc, db, stock, sl, records, bulk>>

CalcNext == Calculate \/ PostLedger

SpecCalc == CalcInit /\ [][CalcNext]_vars

\* ---------------------------------------- several documents of the doctype
\* Inserts and submits of documents of several customers; records is what
\* frappe.db.exists("Custom DocType", ...) is answered from.
RecordNames == {"R1", "R2", "R3"}
Customers == {"C1", "C2"}

\* The document of a record: one row that names no warehouse, no tax rows.
RecordDoc(n, c, status) ==
    [NewDoc(c, DatesInOrder, <<Row(NoWarehouse, 1, 2 * Cent)>>, <<>>)
        EXCEPT !.name = n, !.docstatus = status]

\* frappe.db.exists("Custom DocType", {"customer": c, "docstatus": 1})
exists_submitted(c) ==
    \E x \in records : x.customer = c /\ x.docstatus = Submitted

UniqueInit ==
    /\ doc = BlankDoc
    /\ db = {}
    /\ stock = [k \in Items \X Warehouses |-> 0]
    /\ gl = <<>>
    /\ sl = <<>>
    /\ log = <<>>
    /\ err = NoError
    /\ at = 0
    /\ last = "none"
    /\ pre = Snapshot(doc)
    /\ records = {}
    /\ bulk = NoBulk

\* frappe.get_doc({...}).insert() of a new document of customer c.
InsertRecord ==
    \E n \in RecordNames \ db, c \in Customers :
        LET d == RecordDoc(n, c, Draft)
            r == run_transition("insert",
                     Start(d, <<>>, <<>>, Env("none", exists_submitted(c), n)))
        IN /\ Finish("insert", d, r)
           /\ records' = IF r.err = NoError
                         THEN records \cup {[name |-> n, customer |-> c,
                                             docstatus |-> r.doc.docstatus]}
                         ELSE records

\* frappe.get_doc(doctype, name).submit() of a stored document.
SubmitRecord ==
    \E x \in records :
        LET d == RecordDoc(x.name, x.customer, x.docstatus)
            r == run_transition("submit",
                     Start(d, <<>>, <<>>, Env("none", FALSE, x.name)))
        IN /\ Finish("submit", d, r)
           /\ records' = (records \ {x}) \cup {[x EXCEPT !.docstatus = r.doc.docstatus]}

UniqueNext == InsertRecord \/ SubmitRecord

SpecUnique == UniqueInit /\ [][UniqueNext]_vars

\* ------------------------------------------------- bulk_create_customers
\* customer_data.get("customer_name") of a record that has none.
None == "None"

\* The records of an input: the data of each, and whether the insert of
\* its customer raises (a record without a name is always rejected).
BulkCases ==
    {[data |-> [customer_name |-> n], insert_raises |-> b] :
        n \in {"A", "B"}, b \in BOOLEAN}
    \cup {[data |-> [customer_name |-> None], insert_raises |-> TRUE]}

BulkInputs == SeqsUpTo(BulkCases, MaxBulk)

\* A mutant: the insert is not inside a try; its exception ends the call.
bulk_iteration_NoTry(b) ==
    LET customer_data == b.input[b.i].data IN
    IF b.input[b.i].insert_raises
    THEN [b EXCEPT !.pc = "raised"]
    ELSE [b EXCEPT !.created = Append(@, customer_data.customer_name), !.i = @ + 1]

\* One iteration of the loop: get_doc and insert inside the try, the name
\* appended to created; on an exception, an entry appended to errors.
bulk_iteration(b) ==
    LET customer_data == b.input[b.i].data IN
    IF b.input[b.i].insert_raises
    THEN [b EXCEPT !.errors = Append(@, [customer_name |-> customer_data.customer_name,
                                         error |-> "insert"]),
                   !.i = @ + 1]
    ELSE [b EXCEPT !.created = Append(@, customer_data.customer_name), !.i = @ + 1]

BulkInit ==
    /\ doc = BlankDoc
    /\ db = {}
    /\ stock = [k \in Items \X Warehouses |-> 0]
    /\ gl = <<>>
    /\ sl = <<>>
    /\ log = <<>>
    /\ err = NoError
    /\ at = 0
    /\ last = "none"
    /\ pre = Snapshot(doc)
    /\ records = {}
    /\ \E input \in BulkInputs :
          bulk = [input |-> input, i |-> 1, created |-> <<>>, errors |-> <<>>,
                  pc |-> "loop"]

Elsewhere == UNCHANGED <<doc, db, stock, gl, sl, log, err, at, last, pre, records>>

\* for customer_data in customers_data: the next record.
BulkIterate ==
    /\ bulk.pc = "loop"
    /\ bulk.i <= Len(bulk.input)
    /\ bulk' = bulk_iteration(bulk)
    /\ Elsewhere

\* return {"created": created, "errors": errors}
BulkReturn ==
    /\ bulk.pc = "loop"
    /\ bulk.i > Len(bulk.input)
    /\ bulk' = [bulk EXCEPT !.pc = "returned"]
    /\ Elsewhere

BulkNext == BulkIterate \/ BulkReturn

SpecBulk == BulkInit /\ [][BulkNext]_vars

\* ================================================================ claims
RECURSIVE SumOver(_)
SumOver(xs) == IF xs = <<>> THEN 0 ELSE Head(xs) + SumOver(Tail(xs))

QtyOf(items) == [i \in 1..Len(items) |-> items[i].qty]
ProductsOf(items) == [i \in 1..Len(items) |-> items[i].qty * items[i].rate]
TaxAmountsOf(taxes) == [i \in 1..Len(taxes) |-> taxes[i].tax_amount]

Calculated == last = "calculate_totals" /\ err = NoError

\* C5: whenever calculate_totals has completed, for any item rows and tax
\* rows, grand_total = total_amount + total_tax.
C5_GrandTotal ==
    Calculated => doc.grand_total = doc.total_amount + doc.total_tax

C5_Witness ==
    /\ Calculated
    /\ Len(doc.items) >= 2
    /\ Len(doc.taxes) >= 2
    /\ doc.total_tax > 0
    /\ doc.total_amount > 0
    /\ pre.grand_total # doc.grand_total

\* C6: after calculate_totals each row's amount is its qty * rate, total_qty
\* is the sum of qty and total_amount the sum of qty * rate in row order,
\* whatever totals an earlier call left.
C6_ItemTotals ==
    Calculated =>
        /\ \A i \in 1..Len(doc.items) : doc.items[i].amount = doc.items[i].qty * doc.items[i].rate
        /\ doc.total_qty = SumOver(QtyOf(doc.items))
        /\ doc.total_amount = SumOver(ProductsOf(doc.items))

C6_Witness ==
    /\ Calculated
    /\ Len(doc.items) >= 2
    /\ pre.total_qty > 0
    /\ pre.total_amount > 0
    /\ doc.total_qty > 0
    /\ doc.total_qty # pre.total_qty
    /\ doc.total_amount # pre.total_amount

ExampleItems(items) ==
    /\ Len(items) = 2
    /\ items[1].qty = 2 /\ items[1].rate = 100 * Cent
    /\ items[2].qty = 1 /\ items[2].rate = 50 * Cent

ExampleTaxes(taxes) ==
    /\ Len(taxes) = 1
    /\ taxes[1].charge_type = OnNetTotal /\ taxes[1].rate = 10

\* C7: after calculate_taxes an "On Net Total" row has tax_amount =
\* total_amount * rate / 100, an "Actual" row keeps its tax_amount, and
\* total_tax is the sum of tax_amount over the tax rows; the items
\* [{2, 100}, {1, 50}] with one "On Net Total" row of rate 10 give
\* total_amount 250, total_tax 25 and grand_total 275.
C7_Taxes ==
    Calculated =>
        /\ \A i \in 1..Len(doc.taxes) :
              /\ doc.taxes[i].charge_type = OnNetTotal =>
                    doc.taxes[i].tax_amount * 100 = doc.total_amount * doc.taxes[i].rate
              /\ doc.taxes[i].charge_type = Actual =>
                    doc.taxes[i].tax_amount = pre.taxes[i].tax_amount
        /\ doc.total_tax = SumOver(TaxAmountsOf(doc.taxes))
        /\ (ExampleItems(pre.items) /\ ExampleTaxes(pre.taxes)) =>
              /\ doc.total_amount = 250 * Cent
              /\ doc.total_tax = 25 * Cent
              /\ doc.grand_total = 275 * Cent

C7_Witness ==
    /\ Calculated
    /\ ExampleItems(pre.items)
    /\ ExampleTaxes(pre.taxes)
    /\ pre.total_tax # 0
    /\ doc.total_tax = 25 * Cent

\* ------------------------------------------------------- lifecycle claims
CallNames == [i \in 1..Len(log) |-> log[i].call]

Called(name) == \E i \in 1..Len(log) : log[i].call = name

AllPoints ==
    {"before_insert", "validate", "before_save", "persist", "on_update",
     "after_insert", "before_submit", "validate_for_submit", "on_submit",
     "before_cancel", "on_cancel", "on_trash", "after_delete",
     "before_rename", "after_rename"}

IsPoint(c) == c \in AllPoints

\* The hook points the last transition invoked, in order.
PointsInvoked == SelectSeq(CallNames, IsPoint)

\* The order the specification's table gives.
ClaimedOrder(t) ==
    CASE t = "insert" -> <<"before_insert", "validate", "before_save", "persist",
                           "on_update", "after_insert">>
      [] t = "save" -> <<"validate", "before_save", "persist", "on_update">>
      [] t = "submit" -> <<"before_submit", "validate_for_submit", "persist", "on_submit">>
      [] t = "cancel" -> <<"before_cancel", "persist", "on_cancel">>
      [] t = "delete" -> <<"on_trash", "persist", "after_delete">>
      [] t = "rename" -> <<"before_rename", "persist", "after_rename">>

IsPrefix(a, b) == Len(a) <= Len(b) /\ SubSeq(b, 1, Len(a)) = a

Failed == last \in Transitions /\ err # NoError
Succeeded == last \in Transitions /\ err = NoError

\* The call that raised the error of the last transition.
FailedIn(name) == Failed /\ at > 0 /\ log[at].call = name

BadQuantities == \E i \in 1..Len(doc.items) : doc.items[i].qty <= 0 \/ doc.items[i].rate < 0

AfterQuantities ==
    {"calculate_totals", "calculate_taxes", "validate_against_stock", "before_save",
     "persist", "on_update", "after_insert", "before_submit", "on_submit"}

\* C1: a transition that fails leaves the status as it was and invokes no
\* hook point after the one that failed; a row with qty <= 0 or rate < 0
\* fails validate_quantities, after which calculate_totals,
\* validate_against_stock, before_save, on_update and after_insert are not
\* invoked.
C1_FailureAborts ==
    /\ Failed =>
          /\ doc.docstatus = pre.docstatus
          /\ Len(log) = at
    /\ (last \in Transitions /\ Called("validate_quantities") /\ BadQuantities) =>
          /\ FailedIn("validate_quantities")
          /\ \A n \in AfterQuantities : ~Called(n)

C1_Witness ==
    /\ last = "insert"
    /\ FailedIn("validate_quantities")
    /\ \E i \in 1..Len(doc.items) : doc.items[i].qty = 0
    /\ Len(doc.items) = 1

\* Some row with a qty names a warehouse whose balance, as the transition
\* found it, is below that qty.
ShortOfStock ==
    \E i \in 1..Len(doc.items) :
        /\ doc.items[i].warehouse # NoWarehouse
        /\ doc.items[i].qty # 0
        /\ doc.items[i].qty > pre.stock[<<doc.items[i].item_code, doc.items[i].warehouse>>]

NoLedgerPosting ==
    /\ ~Called("make_gl_entries")
    /\ ~Called("update_stock_ledger")
    /\ gl = pre.gl
    /\ sl = pre.sl
    /\ stock = pre.stock

ExternalDependencyError == "ExternalDependencyError"

\* C2 as stated: a submit whose availability check meets a row short of
\* stock fails with an external-dependency error, which is not the
\* validation error, before any ledger posting.
C2_ExternalClass ==
    (last = "submit" /\ Called("validate_against_stock") /\ ShortOfStock) =>
        /\ err = ExternalDependencyError
        /\ err # ValidationError
        /\ NoLedgerPosting

\* C2, amended: a submit of a document in which a row with a warehouse and
\* a non-zero qty is short of stock fails before any ledger posting, and the
\* availability check that rejects it raises the same validation error as
\* the other checks.
C2_ShortStockFails ==
    (last = "submit" /\ ShortOfStock) =>
        /\ err # NoError
        /\ NoLedgerPosting
        /\ Called("validate_against_stock") =>
              /\ FailedIn("validate_against_stock")
              /\ err = ValidationError

C2_Witness ==
    /\ last = "submit"
    /\ ShortOfStock
    /\ FailedIn("validate_against_stock")
    /\ err = ValidationError
    /\ pre.docstatus = Draft

\* C3: a cancel that succeeds posts one reversal entry per entry the submit
\* posted (the debit, the credit, one per tax row), each with the sign of
\* debit - credit inverted, and leaves the status Cancelled.
C3_CancelReverses ==
    (last = "cancel" /\ err = NoError) =>
        /\ doc.docstatus = Cancelled
        /\ Len(pre.gl) >= 1
        /\ Len(gl) = Len(pre.gl) + 1
        /\ LET posted == pre.gl[Len(pre.gl)]
               back == gl[Len(gl)]
           IN /\ posted.cancel = 0
              /\ back.cancel = 1
              /\ Len(posted.entries) = 2 + Len(doc.taxes)
              /\ posted.entries[1].debit = doc.grand_total /\ posted.entries[1].credit = 0
              /\ posted.entries[2].credit = doc.total_amount /\ posted.entries[2].debit = 0
              /\ \A i \in 1..Len(doc.taxes) :
                    /\ posted.entries[2 + i].credit = doc.taxes[i].tax_amount
                    /\ posted.entries[2 + i].debit = 0
              /\ Len(back.entries) = Len(posted.entries)
              /\ \A i \in 1..Len(posted.entries) :
                    /\ back.entries[i].account = posted.entries[i].account
                    /\ back.entries[i].debit - back.entries[i].credit
                          = 0 - (posted.entries[i].debit - posted.entries[i].credit)

C3_Witness ==
    /\ last = "cancel"
    /\ err = NoError
    /\ Len(doc.taxes) = 2
    /\ doc.grand_total > doc.total_amount
    /\ doc.total_amount > 0

\* The calls made under validate, in order.
IsValidateStep(e) == e.hook = "validate" /\ e.call \notin {"validate", "calculate_taxes"}
ValidateSteps == LET steps == SelectSeq(log, IsValidateStep)
                 IN [i \in 1..Len(steps) |-> steps[i].call]

ClaimedValidateOrder ==
    <<"validate_required_fields", "validate_dates", "validate_quantities",
      "validate_against_stock", "calculate_totals">>

AmendedValidateOrder ==
    <<"validate_required_fields", "validate_dates", "validate_quantities",
      "calculate_totals", "validate_against_stock">>

ValidateRan == last \in Transitions /\ Called("validate")

\* C4 as stated: validate runs required fields, dates, quantities, the
\* availability check and then the totals, stopping at the first violation.
C4_StockBeforeTotals ==
    ValidateRan =>
        /\ IsPrefix(ValidateSteps, ClaimedValidateOrder)
        /\ err = NoError => ValidateSteps = ClaimedValidateOrder

\* C4, amended: validate runs required fields, dates, quantities, the totals
\* and then the availability check; the first violation ends the
\* transition, so that nothing after it runs.
C4_TotalsBeforeStock ==
    ValidateRan =>
        /\ IsPrefix(ValidateSteps, AmendedValidateOrder)
        /\ err = NoError => ValidateSteps = AmendedValidateOrder
        /\ (Failed /\ at > 0 /\ log[at].hook = "validate") =>
              /\ Len(log) = at
              /\ ValidateSteps[Len(ValidateSteps)] = log[at].call
              /\ \A n \in {"before_save", "persist", "on_update", "after_insert",
                           "before_submit", "on_submit"} : ~Called(n)

C4_Witness ==
    /\ last = "insert"
    /\ FailedIn("validate_against_stock")
    /\ ValidateSteps = AmendedValidateOrder

\* Position of the persist step in the log of a transition that succeeded.
PersistAt == CHOOSE i \in 1..Len(log) : log[i].call = "persist"

\* The status, identifier and storage a transition ends in.
TerminalState ==
    /\ last = "insert" => doc.docstatus = Draft /\ doc.name \in db
    /\ last = "save" => doc.docstatus = pre.docstatus /\ doc.name \in db
    /\ last = "submit" => doc.docstatus = Submitted
    /\ last = "cancel" => doc.docstatus = Cancelled
    /\ last = "delete" => doc.name \notin db /\ doc.docstatus = pre.docstatus
    /\ last = "rename" => /\ doc.name # pre.name
                          /\ doc.name \in db
                          /\ pre.name \notin db
                          /\ doc.docstatus = pre.docstatus

\* The hooks before the persist step see the document as it was, those
\* after it see it as it is persisted.
HooksObserve ==
    \A i \in 1..Len(log) :
        IF i <= PersistAt
        THEN /\ log[i].docstatus = pre.docstatus
             /\ log[i].name = pre.name
             /\ log[i].stored = (pre.name \in pre.db)
        ELSE /\ log[i].docstatus = doc.docstatus
             /\ log[i].name = doc.name
             /\ log[i].stored = (doc.name \in db)

\* C8 as stated: a transition that succeeds has invoked exactly the hook
\* points of the table, in its order, ends in the terminal state, and its
\* 'after' hooks have observed the persisted state.
C8_TableOrder ==
    Succeeded =>
        /\ PointsInvoked = ClaimedOrder(last)
        /\ TerminalState
        /\ HooksObserve

NotValidate(c) == c # "validate"

\* C8, amended: as stated for insert, save, cancel, delete and rename; a
\* submit invokes validate as well, before its persist step, and otherwise
\* the hook points of the table in its order.
C8_CanonicalOrder ==
    Succeeded =>
        /\ last # "submit" => PointsInvoked = ClaimedOrder(last)
        /\ last = "submit" =>
              /\ SelectSeq(PointsInvoked, NotValidate) = ClaimedOrder(last)
              /\ \E i \in 1..PersistAt : log[i].call = "validate"
        /\ TerminalState
        /\ HooksObserve

C8_Witness ==
    /\ last = "submit"
    /\ err = NoError
    /\ log[Len(log)].hook = "on_submit"
    /\ log[Len(log)].docstatus = Submitted

\* C9: the status of a document only moves from Draft to Submitted, by a
\* submit, and from Submitted to Cancelled, by a cancel; a submit succeeds
\* only from Draft, a cancel only from Submitted, and no submit or save of a
\* cancelled document succeeds.
C9_StatusMoves ==
    /\ last \in Transitions \cup {"edit", "stock_move"} =>
          \/ doc.docstatus = pre.docstatus
          \/ /\ last = "submit" /\ err = NoError
             /\ pre.docstatus = Draft /\ doc.docstatus = Submitted
          \/ /\ last = "cancel" /\ err = NoError
             /\ pre.docstatus = Submitted /\ doc.docstatus = Cancelled
    /\ (last = "submit" /\ err = NoError) => pre.docstatus = Draft
    /\ (last = "cancel" /\ err = NoError) => pre.docstatus = Submitted
    /\ (last \in {"submit", "save"} /\ pre.docstatus = Cancelled) =>
          err # NoError /\ doc.docstatus = Cancelled

C9_Witness ==
    /\ last = "submit"
    /\ pre.docstatus = Cancelled
    /\ err # NoError
    /\ doc.docstatus = Cancelled

\* The totals are those of the rows as they stand.
TotalsOfRows ==
    /\ \A i \in 1..Len(doc.items) : doc.items[i].amount = doc.items[i].qty * doc.items[i].rate
    /\ doc.total_qty = SumOver(QtyOf(doc.items))
    /\ doc.total_amount = SumOver(ProductsOf(doc.items))
    /\ \A i \in 1..Len(doc.taxes) :
          doc.taxes[i].charge_type = OnNetTotal =>
              doc.taxes[i].tax_amount * 100 = doc.total_amount * doc.taxes[i].rate
    /\ doc.total_tax = SumOver(TaxAmountsOf(doc.taxes))
    /\ doc.grand_total = doc.total_amount + doc.total_tax

\* C10: a transition that fails after calculate_totals has run (in the
\* availability check of validate, or at a later hook point) leaves amount,
\* total_qty, total_amount, total_tax and grand_total as calculate_totals
\* wrote them, and the status as it was.
C10_NoRestore ==
    /\ FailedIn("validate_against_stock") =>
          /\ TotalsOfRows
          /\ doc.docstatus = pre.docstatus
    /\ (Failed /\ Called("calculate_totals")) =>
          /\ TotalsOfRows
          /\ doc.docstatus = pre.docstatus

C10_Witness ==
    /\ last = "insert"
    /\ FailedIn("validate_against_stock")
    /\ doc.total_qty > 0
    /\ doc.total_tax > 0
    /\ doc.grand_total = doc.total_amount + doc.total_tax

\* C11: when before_rename rejects a rename, the persist step and
\* after_rename (update_references) do not run; the original identifier is
\* still stored and no other identifier is.
C11_RenameRejected ==
    (last = "rename" /\ FailedIn("check_if_rename_allowed")) =>
        /\ ~Called("persist")
        /\ ~Called("after_rename")
        /\ ~Called("update_references")
        /\ doc.name = pre.name
        /\ pre.name \in db
        /\ \A n \in Names \ {pre.name} : n \notin db

C11_Witness ==
    /\ last = "rename"
    /\ FailedIn("check_if_rename_allowed")
    /\ log[Len(log)].hook = "before_rename"
    /\ pre.name \in pre.db
    /\ pre.name \in db

\* The quantity the rows of the document issue from an item at a warehouse.
IssuedQty(k) ==
    SumOver([i \in 1..Len(doc.items) |->
                IF <<doc.items[i].item_code, doc.items[i].warehouse>> = k
                THEN doc.items[i].qty ELSE 0])

\* C12: the stock quantity of an item at a warehouse never becomes
\* negative, and a submit that succeeds issues from it, over all the rows
\* naming it, no more than the quantity that was available.
C12_StockNeverNegative ==
    /\ \A k \in DOMAIN stock : stock[k] >= 0
    /\ (last = "submit" /\ err = NoError) =>
          \A k \in DOMAIN stock : IssuedQty(k) <= pre.stock[k]

\* C13: at most one document per customer is Submitted.
C13_OneSubmittedPerCustomer ==
    \A x, y \in records :
        (x.customer = y.customer /\ x.docstatus = Submitted /\ y.docstatus = Submitted)
            => x = y

DebitsOf(entries) == [i \in 1..Len(entries) |-> entries[i].debit]
CreditsOf(entries) == [i \in 1..Len(entries) |-> entries[i].credit]

Posted == gl[Len(gl)].entries

\* C14: the entries make_gl_entries posts after calculate_totals are
\* balanced: one debit, of grand_total, which equals the sum of the credits,
\* the total of the rows and the tax_amount of every tax row.
C14_Balanced ==
    (last = "make_gl_entries" /\ err = NoError) =>
        /\ Len(Posted) = 2 + Len(doc.taxes)
        /\ Posted[1].debit = doc.grand_total
        /\ \A i \in 2..Len(Posted) : Posted[i].debit = 0
        /\ SumOver(DebitsOf(Posted)) = SumOver(CreditsOf(Posted))
        /\ SumOver(CreditsOf(Posted)) =
              SumOver(ProductsOf(doc.items)) + SumOver(TaxAmountsOf(doc.taxes))

C14_Witness ==
    /\ last = "make_gl_entries"
    /\ err = NoError
    /\ Len(doc.items) = MaxCalcRows
    /\ Len(doc.taxes) = MaxTaxRows
    /\ Len(Posted) = 2 + MaxTaxRows
    /\ doc.total_tax > 0
    /\ Posted[1].debit > Posted[2].credit

InsertRaised(x) == x.insert_raises
InsertSucceeded(x) == ~x.insert_raises

NamesOf(xs) == [k \in 1..Len(xs) |-> xs[k].data.customer_name]
ErrorNames(es) == [k \in 1..Len(es) |-> es[k].customer_name]

\* The records the loop has been through.
Processed == SubSeq(bulk.input, 1, bulk.i - 1)

\* C15: every record is processed once, in input order; each contributes
\* one element, to created when its insert succeeded and to errors when it
\* raised; no insert that fails ends the call, which returns with
\* len(created) + len(errors) equal to the number of records.
C15_EveryRecordOnce ==
    /\ bulk.pc \in {"loop", "returned"}
    /\ bulk.i \in 1..(Len(bulk.input) + 1)
    /\ Len(bulk.created) + Len(bulk.errors) = bulk.i - 1
    /\ bulk.created = NamesOf(SelectSeq(Processed, InsertSucceeded))
    /\ ErrorNames(bulk.errors) = NamesOf(SelectSeq(Processed, InsertRaised))
    /\ bulk.pc = "returned" =>
          /\ bulk.i = Len(bulk.input) + 1
          /\ Len(bulk.created) + Len(bulk.errors) = Len(bulk.input)

C15_Witness ==
    /\ bulk.pc = "returned"
    /\ Len(bulk.input) = MaxBulk
    /\ bulk.input[1].insert_raises
    /\ ~bulk.input[MaxBulk].insert_raises
    /\ Len(bulk.errors) >= 1
    /\ Len(bulk.created) >= 1
    /\ Len(bulk.created) + Len(bulk.errors) = MaxBulk

====
